---- MODULE Spec2Model ----
(***************************************************************************)
(* ConfigManager.rollback_config, validate_config, the compliance check of *)
(* one device and their helpers (src/netconfig/core/config_manager.py),    *)
(* with the device inventory and the tables they read and write.           *)
(*                                                                         *)
(* A rollback looks the Configuration row up, resolves its target devices  *)
(* (from the selector, or from the rows of the row's deployment), starts   *)
(* one worker per target under asyncio.Semaphore(5), gathers the workers'  *)
(* return values in task order and aggregates them.                        *)
(***************************************************************************)
EXTENDS Integers, Sequences, FiniteSets, TLC

\* ------------------------------------------------------------------ bounds
\* Devices of the inventory in the specification Spec.
NumDevices == 3
\* Deployments recorded before rollbacks are studied.
MaxDeploys == 2
\* Devices of the inventory in the specification SpecPool (more than the
\* semaphore admits at once).
PoolDevices == 7

\* Devices of the inventory in the specification SpecLive (more than the
\* semaphore admits at once).
LiveDevices == 6
\* Devices of one compliance sweep in the specification SpecSweep.
SweepDevices == 2
\* Symbols of a device configuration text in the compliance checks.
MaxText == 3
\* Symbols of a policy pattern.
MaxPattern == 2

\* asyncio.Semaphore(5)
MaxConcurrent == 5

\* ------------------------------------------------------------- vocabulary
DeviceNames == <<"r1", "r2", "r3", "r4", "r5", "r6", "r7", "r8", "r9">>
Name(d) == DeviceNames[d]
UnknownName == "ghost"

\* Optional[List[str]]: None, or a list of names.
NoneDevices == [kind |-> "None"]
ListOf(names) == [kind |-> "list", names |-> names]

\* Python None where a tuple-valued identifier is expected.
None == <<>>

\* dict.get(key): the value, or None when the key is absent.
Get(r, k) == IF k \in DOMAIN r THEN r[k] ELSE None

\* A device dictionary of the inventory.
Device(d) == [id |-> d, name |-> Name(d)]

VARIABLES
    inventory,    \* ids of the devices the device manager holds
    configs,      \* the Configuration table: rows in insertion order, id = index
    nDeploys,     \* deployments made so far (the next deployment id - 1)
    deployedTo,   \* deployment id -> the device ids that deployment targeted
    history,      \* the ConfigurationHistory table: rows in insertion order
    deployResult, \* the dictionary the last deployment returned
    pc,           \* "idle" | "running" | "done": the rollback invocation
    req,          \* the arguments of the invocation: config_id, devices
    resolvedBy,   \* "none" | "selector" | "deployment": which resolution ran
    warnings,     \* the names _get_target_devices warned about, in order
    target_devices, \* the resolved device dictionaries, in list order
    workers,      \* per task: phase, backup_result, return value, the
                  \* device calls it has made so far (a history) and the
                  \* configuration text it pushed
    semaphore,    \* free permits of the asyncio.Semaphore
    result,       \* the dictionary rollback_config returned
    backupCalls,  \* device id -> backup_manager.create_backup calls this batch
    pushCalls,    \* device id -> _execute_deployment calls this batch
    validation,   \* the last validate_config call: arguments, the caller's
                  \* mapping after the call, and the dictionary returned
    evaluation,   \* the last _check_policy_compliance call and its answer
    compliance    \* the last _check_device_compliance call and its answer

vars == <<inventory, configs, nDeploys, deployedTo, history, deployResult,
          pc, req, resolvedBy, warnings, target_devices, workers, semaphore,
          result, backupCalls, pushCalls, validation, evaluation, compliance>>

world == <<inventory, configs, nDeploys, deployedTo, history, deployResult>>
batch == <<pc, req, resolvedBy, warnings, target_devices, workers, semaphore,
           result, backupCalls, pushCalls>>
\* The calls that are functions of their arguments.
pure == <<validation, evaluation, compliance>>

AllIds == 1..Len(DeviceNames)

\* ------------------------------------------------------ sequence helpers
RECURSIVE SeqOfSet(_)
\* The elements of a set of integers in increasing order.
SeqOfSet(S) ==
    IF S = {} THEN <<>>
    ELSE LET m == CHOOSE x \in S : \A y \in S : x <= y
         IN <<m>> \o SeqOfSet(S \ {m})

RECURSIVE CountCalls(_, _)
\* The calls counted for the devices 1..n.
CountCalls(calls, n) ==
    IF n = 0 THEN 0 ELSE calls[n] + CountCalls(calls, n - 1)

RECURSIVE CountIf(_, _)
\* sum(1 for r in results if r.get('success'))
CountIf(s, k) ==
    IF s = <<>> THEN 0
    ELSE (IF Get(Head(s), k) = TRUE THEN 1 ELSE 0) + CountIf(Tail(s), k)

\* --------------------------------------------------------- device manager
\* device_manager.get_all_devices(): every inventory device, by id.
get_all_devices == [i \in 1..Cardinality(inventory) |-> Device(SeqOfSet(inventory)[i])]

\* device_manager.get_device_by_name(name): the device, or None.
get_device_by_name(name) ==
    IF \E d \in inventory : Name(d) = name
    THEN <<Device(CHOOSE d \in inventory : Name(d) = name)>>
    ELSE None

\* device_manager.get_device(device_id): the device, or None.
get_device(device_id) ==
    IF device_id \in inventory THEN <<Device(device_id)>> ELSE None

\* ------------------------------------------------------ target resolution
RECURSIVE LookupEach(_)
\* The loop of _get_target_devices: found devices appended in list order,
\* unknown names skipped (with a warning).
LookupEach(names) ==
    IF names = <<>> THEN <<>>
    ELSE get_device_by_name(Head(names)) \o LookupEach(Tail(names))

\* Target resolution that gives up the whole list on an unknown name.
GetTargetDevicesAllOrNone(names) ==
    IF names = <<"all">> THEN get_all_devices
    ELSE IF \E i \in 1..Len(names) : get_device_by_name(names[i]) = None
    THEN <<>>
    ELSE LookupEach(names)

\* ConfigManager._get_target_devices(devices)
GetTargetDevices(names) ==
    IF names = <<"all">> THEN get_all_devices ELSE LookupEach(names)

\* The logger.warning calls of _get_target_devices: one per listed name the
\* device manager does not know, in list order; none for the literal 'all'.
TargetWarnings(names) ==
    IF names = <<"all">> THEN <<>>
    ELSE SelectSeq(names, LAMBDA n : get_device_by_name(n) = None)

RECURSIVE DevicesOfIds(_)
\* The loop of _get_devices_from_deployment over device_ids.
DevicesOfIds(ids) ==
    IF ids = <<>> THEN <<>>
    ELSE get_device(Head(ids)) \o DevicesOfIds(Tail(ids))

\* session.query(Configuration).filter_by(deployment_id=...).all(), then
\* [config.device_id for config in configs]
DeviceIdsOfDeployment(deployment_id) ==
    LET rows == SelectSeq(configs, LAMBDA c : c.deployment_id = deployment_id)
    IN [i \in 1..Len(rows) |-> rows[i].device_id]

\* _get_devices_from_deployment without the filter on the deployment id.
GetDevicesOfAllRows(deployment_id, fault) ==
    IF fault THEN <<>>
    ELSE DevicesOfIds([i \in 1..Len(configs) |-> configs[i].device_id])

\* ConfigManager._get_devices_from_deployment(deployment_id); a fault of
\* the session is logged and answered with the empty list.
GetDevicesFromDeployment(deployment_id, fault) ==
    IF fault THEN <<>>
    ELSE DevicesOfIds(DeviceIdsOfDeployment(deployment_id))

\* `if devices:` -- None and the empty list are both falsy.
Truthy(devices) == devices.kind = "list" /\ devices.names # <<>>

\* Lines 36-41 of rollback_config: which resolution runs, and its result.
ResolveTargets(devices, config, fault) ==
    IF Truthy(devices)
    THEN GetTargetDevices(devices.names)
    ELSE GetDevicesFromDeployment(config.deployment_id, fault)

\* ---------------------------------------------------------------- results
NotFoundResult == [success |-> FALSE, error |-> "Configuration not found"]
NoTargetsResult == [success |-> FALSE, error |-> "No valid devices found"]
FailedResult == [success |-> FALSE, error |-> "Rollback failed"]
NoResult == [pending |-> TRUE]

ZeroCalls == [d \in AllIds |-> 0]

\* A task before it has acquired the semaphore.
QueuedWorker ==
    [phase |-> "queued", backup_result |-> None, ret |-> None,
     calls |-> <<>>, backup_failed |-> FALSE, pushed |-> None]

\* ConfigManager._create_device_backup(device): the backup manager's answer,
\* or, when it raises, the failure dictionary of the except branch.
CreateDeviceBackup(device, outcome) ==
    CASE outcome = "ok" ->
            [success |-> TRUE, backup_id |-> <<"backup", device.id>>]
      [] outcome = "refused" ->
            [success |-> FALSE, error |-> "backup refused"]
      [] outcome = "raise" ->
            [success |-> FALSE, error |-> "exception"]

\* What _execute_deployment hands back through run_in_executor.
PushAnswer(outcome) ==
    CASE outcome = "ok" -> [success |-> TRUE, message |-> "applied"]
      [] outcome = "rejected" -> [success |-> FALSE, message |-> "rejected"]

\* A worker that reports success only when its backup succeeded too.
WorkerReturnNeedingBackup(device, backup_result, outcome) ==
    IF outcome = "raise"
    THEN [device |-> device.name, success |-> FALSE, error |-> "exception"]
    ELSE [device |-> device.name,
          success |-> (Get(PushAnswer(outcome), "success")
                         /\ Get(backup_result, "success")),
          message |-> Get(PushAnswer(outcome), "message"),
          backup_id |-> Get(backup_result, "backup_id")]

\* The dictionary _rollback_device_config returns: lines 381-387 after a
\* push that returned, lines 391-396 after one that raised.
WorkerReturn(device, backup_result, outcome) ==
    IF outcome = "raise"
    THEN [device |-> device.name, success |-> FALSE, error |-> "exception"]
    ELSE [device |-> device.name,
          success |-> Get(PushAnswer(outcome), "success"),
          message |-> Get(PushAnswer(outcome), "message"),
          backup_id |-> Get(backup_result, "backup_id")]

\* isinstance(result, Exception) for a value gather hands back.
IsException(r) == "exception" \in DOMAIN r

\* Result processing that keeps the successful outcomes only.
ProcessResultsKeepingSuccesses(rollback_results, targets) ==
    SelectSeq(rollback_results, LAMBDA r : Get(r, "success") = TRUE)

\* Lines 61-71 of rollback_config: one entry per gathered value, in task
\* order; an exception becomes a failure keyed to target_devices[i].
ProcessResults(rollback_results, targets) ==
    [i \in 1..Len(rollback_results) |->
        IF IsException(rollback_results[i])
        THEN [device |-> targets[i].name, success |-> FALSE,
              error |-> rollback_results[i].exception]
        ELSE rollback_results[i]]

\* Aggregation that reports a batch without a success as a bare error.
AggregateErrorWhenAllFailed(results) ==
    LET successful_rollbacks == CountIf(results, "success")
    IN IF successful_rollbacks = 0
       THEN [success |-> FALSE, error |-> "Rollback failed"]
       ELSE [success |-> TRUE,
             results |-> results,
             summary |-> [total_devices |-> Len(results),
                          successful |-> successful_rollbacks,
                          failed |-> Len(results) - successful_rollbacks]]

\* Aggregation whose overall flag asks every device to succeed.
AggregateAllOrNothing(results) ==
    LET successful_rollbacks == CountIf(results, "success")
    IN [success |-> successful_rollbacks = Len(results),
        results |-> results,
        summary |-> [total_devices |-> Len(results),
                     successful |-> successful_rollbacks,
                     failed |-> Len(results) - successful_rollbacks]]

\* Lines 73-83 of rollback_config.
Aggregate(results) ==
    LET successful_rollbacks == CountIf(results, "success")
    IN [success |-> successful_rollbacks > 0,
        results |-> results,
        summary |-> [total_devices |-> Len(results),
                     successful |-> successful_rollbacks,
                     failed |-> Len(results) - successful_rollbacks]]

\* ------------------------------------------------------------ the rollback
\* Lookup without the filter on the id: the first row of the table.
LookupAnyRow(config_id) ==
    IF configs # <<>> THEN <<configs[1]>> ELSE None

\* session.query(Configuration).filter_by(id=config_id).first(): the row in
\* a one-element tuple, or None.
Lookup(config_id) ==
    IF config_id \in 1..Len(configs) THEN <<configs[config_id]>> ELSE None

\* rollback_config up to `await asyncio.gather`: the lookup, the resolution
\* and the creation of one task per target.  No await in it suspends.
RollbackConfig(config_id, devices, lookupFault, historyFault) ==
    /\ pc = "idle"
    /\ req' = [config_id |-> config_id, devices |-> devices]
    /\ backupCalls' = ZeroCalls
    /\ pushCalls' = ZeroCalls
    /\ IF lookupFault
       THEN /\ pc' = "done"
            /\ result' = FailedResult
            /\ resolvedBy' = "none"
            /\ warnings' = <<>>
            /\ target_devices' = <<>>
            /\ workers' = <<>>
            /\ UNCHANGED semaphore
       ELSE IF Lookup(config_id) = None
       THEN /\ pc' = "done"
            /\ result' = NotFoundResult
            /\ resolvedBy' = "none"
            /\ warnings' = <<>>
            /\ target_devices' = <<>>
            /\ workers' = <<>>
            /\ UNCHANGED semaphore
       ELSE LET config == Lookup(config_id)[1]
                targets == ResolveTargets(devices, config, historyFault)
            IN /\ resolvedBy' = IF Truthy(devices) THEN "selector" ELSE "deployment"
               /\ warnings' = IF Truthy(devices)
                              THEN TargetWarnings(devices.names) ELSE <<>>
               /\ target_devices' = targets
               /\ IF targets = <<>>
                  THEN /\ pc' = "done"
                       /\ result' = NoTargetsResult
                       /\ workers' = <<>>
                       /\ UNCHANGED semaphore
                  ELSE /\ pc' = "running"
                       /\ result' = NoResult
                       /\ semaphore' = MaxConcurrent
                       /\ workers' = [i \in 1..Len(targets) |-> QueuedWorker]
    /\ UNCHANGED <<world, pure>>

\* A task that enters its device work whether or not a permit is free.
AcquireWithoutLimit(i) ==
    /\ pc = "running"
    /\ workers[i].phase = "queued"
    /\ \A j \in 1..(i - 1) : workers[j].phase # "queued"
    /\ semaphore' = semaphore - 1
    /\ workers' = [workers EXCEPT ![i].phase = "backup",
                                  ![i].calls = Append(@, "backup")]
    /\ backupCalls' = [backupCalls EXCEPT ![target_devices[i].id] = @ + 1]
    /\ UNCHANGED <<world, pure, pc, req, resolvedBy, warnings, target_devices, result, pushCalls>>

\* A task that goes straight to the push, with no backup attempt.
AcquireSkippingBackup(i) ==
    /\ pc = "running"
    /\ workers[i].phase = "queued"
    /\ \A j \in 1..(i - 1) : workers[j].phase # "queued"
    /\ semaphore > 0
    /\ semaphore' = semaphore - 1
    /\ workers' = [workers EXCEPT ![i].phase = "push",
                                  ![i].calls = Append(@, "push")]
    /\ pushCalls' = [pushCalls EXCEPT ![target_devices[i].id] = @ + 1]
    /\ UNCHANGED <<world, pure, pc, req, resolvedBy, warnings, target_devices, result, backupCalls>>

\* `async with semaphore:` entered by task i, which then runs to the await
\* of the backup manager.  Waiters are woken in task order.
Acquire(i) ==
    /\ pc = "running"
    /\ workers[i].phase = "queued"
    /\ \A j \in 1..(i - 1) : workers[j].phase # "queued"
    /\ semaphore > 0
    /\ semaphore' = semaphore - 1
    /\ workers' = [workers EXCEPT ![i].phase = "backup",
                                  ![i].calls = Append(@, "backup")]
    /\ backupCalls' = [backupCalls EXCEPT ![target_devices[i].id] = @ + 1]
    /\ UNCHANGED <<world, pure, pc, req, resolvedBy, warnings, target_devices, result, pushCalls>>

\* The text a worker hands to _execute_deployment (line 378): the text of
\* the row rollback_config looked up, whichever device the worker is for.
PushedText(config) == config.configuration

\* The backup attempt of task i ends; the task goes on to submit the push
\* (lines 370-379).
BackupReturns(i, outcome) ==
    /\ pc = "running"
    /\ workers[i].phase = "backup"
    /\ workers' = [workers EXCEPT
                     ![i].phase = "push",
                     ![i].backup_result =
                         CreateDeviceBackup(target_devices[i], outcome),
                     ![i].backup_failed = (outcome # "ok"),
                     ![i].calls = Append(@, "push"),
                     ![i].pushed = PushedText(Lookup(req.config_id)[1])]
    /\ pushCalls' = [pushCalls EXCEPT ![target_devices[i].id] = @ + 1]
    /\ UNCHANGED <<world, pure, pc, req, resolvedBy, warnings, target_devices, result,
                   semaphore, backupCalls>>

\* A push whose exception escapes the worker and the gather, and ends the
\* batch in rollback_config's own handler.
PushReturnsAbortingBatch(i, outcome) ==
    /\ pc = "running"
    /\ workers[i].phase = "push"
    /\ workers' = [workers EXCEPT
                     ![i].phase = "returned",
                     ![i].backup_result = None,
                     ![i].ret = WorkerReturn(target_devices[i],
                                             workers[i].backup_result, outcome)]
    /\ semaphore' = semaphore + 1
    /\ IF outcome = "raise"
       THEN pc' = "done" /\ result' = FailedResult
       ELSE UNCHANGED <<pc, result>>
    /\ UNCHANGED <<world, pure, req, resolvedBy, warnings, target_devices, backupCalls, pushCalls>>

\* A worker that keeps its permit when its push raised.
PushReturnsKeepingSlotOnFault(i, outcome) ==
    /\ pc = "running"
    /\ workers[i].phase = "push"
    /\ workers' = [workers EXCEPT
                     ![i].phase = "returned",
                     ![i].backup_result = None,
                     ![i].ret = WorkerReturn(target_devices[i],
                                             workers[i].backup_result, outcome)]
    /\ semaphore' = IF outcome = "raise" THEN semaphore ELSE semaphore + 1
    /\ UNCHANGED <<world, pure, pc, req, resolvedBy, warnings, target_devices, result,
                   backupCalls, pushCalls>>

\* The push of task i returns or raises; the task returns its dictionary
\* and leaves the `async with` block.
PushReturns(i, outcome) ==
    /\ pc = "running"
    /\ workers[i].phase = "push"
    /\ workers' = [workers EXCEPT
                     ![i].phase = "returned",
                     ![i].backup_result = None,
                     ![i].ret = WorkerReturn(target_devices[i],
                                             workers[i].backup_result, outcome)]
    /\ semaphore' = semaphore + 1
    /\ UNCHANGED <<world, pure, pc, req, resolvedBy, warnings, target_devices, result,
                   backupCalls, pushCalls>>

\* gather returns once every task has returned; lines 60-83.
GatherReturns ==
    /\ pc = "running"
    /\ \A i \in 1..Len(workers) : workers[i].phase = "returned"
    /\ pc' = "done"
    /\ result' = Aggregate(ProcessResults(
                     [i \in 1..Len(workers) |-> workers[i].ret], target_devices))
    /\ UNCHANGED <<world, pure, req, resolvedBy, warnings, target_devices, workers, semaphore,
                   backupCalls, pushCalls>>

\* The caller has its result; the next invocation may start.
Finish ==
    /\ pc = "done"
    /\ pc' = "idle"
    /\ req' = [config_id |-> 0, devices |-> NoneDevices]
    /\ resolvedBy' = "none"
    /\ warnings' = <<>>
    /\ target_devices' = <<>>
    /\ workers' = <<>>
    /\ semaphore' = MaxConcurrent
    /\ result' = NoResult
    /\ backupCalls' = ZeroCalls
    /\ pushCalls' = ZeroCalls
    /\ UNCHANGED <<world, pure>>

\* ------------------------------------------------- the rest of the system
\* ConfigManager._store_device_configuration: the row is added, unless the
\* session faults, which is logged and swallowed.
StoreDeviceConfiguration(rows, device_id, deployment_id, configuration, written) ==
    IF written
    THEN Append(rows, [device_id |-> device_id,
                       deployment_id |-> deployment_id,
                       configuration |-> configuration])
    ELSE rows

\* ConfigManager._store_deployment_history: the row is added, unless the
\* session faults, which is logged and swallowed.
StoreDeploymentHistory(rows, deployment_id, devices, results, success_rate, written) ==
    IF written
    THEN Append(rows, [deployment_id |-> deployment_id,
                       devices |-> devices,
                       results |-> results,
                       success_rate |-> success_rate])
    ELSE rows

\* A store helper that lets the session's exception through.
StoreHelperReraising(written) ==
    IF written THEN "returned" ELSE "raised"

\* How a store helper ends for its caller: at the end of the try block
\* when the row is committed, at the end of the except block (after
\* logger.error) when the session faulted.  Neither path raises.
StoreHelperOutcome(written) ==
    IF written THEN "returned" ELSE "returned"

\* The outcome a deployment reports for one target whose push succeeded; a
\* store helper that raised would turn it into a per-device failure.
DeployOutcome(device, stored) ==
    IF stored = "raised"
    THEN [device |-> device.name, success |-> FALSE, error |-> "exception"]
    ELSE [device |-> device.name, success |-> TRUE, message |-> "applied"]

\* What a deployment returns: the aggregate of its outcomes, or the
\* top-level failure when writing the history raised.
DeployResult(results, stored) ==
    IF stored = "raised"
    THEN [success |-> FALSE, error |-> "Deployment failed"]
    ELSE Aggregate(results)

\* The outcomes of a deployment to `targets`, in target order.
DeployOutcomes(targets, lost) ==
    [i \in 1..Len(targets) |->
        DeployOutcome(targets[i], StoreHelperOutcome(i # lost))]

\* The success rate a deployment records: successful outcomes per hundred.
SuccessRate(results) ==
    (CountIf(results, "success") * 100) \div Len(results)

RECURSIVE StoreEach(_, _, _, _, _)
\* The snapshots of one deployment: one write per target, in target order,
\* from index i on; the write for target `lost` (if any) is not made.
StoreEach(rows, targets, deployment_id, lost, i) ==
    IF i > Len(targets) THEN rows
    ELSE StoreEach(
            StoreDeviceConfiguration(rows, targets[i].id, deployment_id,
                                     <<"rendered for", targets[i].name>>,
                                     i # lost),
            targets, deployment_id, lost, i + 1)

\* A deployment to the devices `names` selects, every push of which
\* succeeds: a fresh deployment id and a snapshot row per target, except for
\* target `lost` (0: none), whose row the session failed to write; then one
\* history row for the batch, unless the session failed to write it.
Deploy(names, lost, historyWritten) ==
    /\ pc = "idle"
    /\ nDeploys < MaxDeploys
    /\ LET targets == GetTargetDevices(names)
           deployment_id == nDeploys + 1
       IN /\ targets # <<>>
          /\ lost \in 0..Len(targets)
          /\ nDeploys' = deployment_id
          /\ configs' = StoreEach(configs, targets, deployment_id, lost, 1)
          /\ deployedTo' = [deployedTo EXCEPT ![deployment_id] =
                               {targets[i].id : i \in 1..Len(targets)}]
          /\ LET results == DeployOutcomes(targets, lost)
             IN /\ history' = StoreDeploymentHistory(
                                  history, deployment_id, names, results,
                                  SuccessRate(results), historyWritten)
                /\ deployResult' = DeployResult(
                                       results,
                                       StoreHelperOutcome(historyWritten))
    /\ UNCHANGED <<inventory, batch, pure>>

\* DELETE /api/v1/devices/<device_id>: the device leaves the inventory.
\* (A running batch reads neither the inventory nor the table after
\* RollbackConfig, so steps of other requests are taken between batches.)
DeleteDevice(d) ==
    /\ pc = "idle"
    /\ d \in inventory
    /\ inventory' = inventory \ {d}
    /\ UNCHANGED <<configs, nDeploys, deployedTo, history, deployResult, batch,
                   pure>>

\* ---------------------------------------------------------- validate_config
\* Optional[Dict[str, Any]]: None, or a mapping from names to values.
NoneVariables == [kind |-> "None"]
DictOf(items) == [kind |-> "dict", items |-> items]

\* dict.get(key, default)
GetOr(r, k, default) == IF k \in DOMAIN r THEN r[k] ELSE default

\* d.update(u): the keys of u are set in d, over any value d held for them.
DictUpdate(d, u) ==
    [k \in DOMAIN d \cup DOMAIN u |-> IF k \in DOMAIN u THEN u[k] ELSE d[k]]

\* The mapping validate_config updates its sample variables with.
Placeholders ==
    [hostname |-> "sample-device", management_ip |-> "192.168.1.1",
     device_type |-> "cisco_ios"]

\* A template is a sequence of pieces: literal text, or {{ name }}.
Lit(text) == [lit |-> text]
Var(name) == [var |-> name]

\* The files of the template directory, by name.  A name that is not in
\* the directory has no entry.
TemplateDir ==
    [empty_j2 |-> <<>>,
     hostname_j2 |-> <<Lit("hostname "), Var("hostname")>>,
     ntp_j2 |-> <<Lit("hostname "), Var("hostname"),
                  Lit(" ntp server "), Var("ntp_server"),
                  Lit(" source "), Var("management_ip")>>]

TemplateNames == {"missing_j2", "empty_j2", "hostname_j2", "ntp_j2"}

\* ConfigManager._load_template(template_name): the text in a one-element
\* tuple, or None when the file does not exist or reading it faults.
LoadTemplate(template_name, fault) ==
    IF fault THEN None
    ELSE IF template_name \in DOMAIN TemplateDir
    THEN <<TemplateDir[template_name]>>
    ELSE None

RECURSIVE RenderTemplate(_, _)
\* ConfigManager._render_template: each {{ name }} replaced by the value the
\* mapping holds for name (by nothing when it holds none), the literal text
\* kept; the rendered text is the sequence of the resulting runs.
RenderTemplate(template_content, variables) ==
    IF template_content = <<>> THEN <<>>
    ELSE LET piece == Head(template_content)
             run == IF "lit" \in DOMAIN piece THEN piece.lit
                    ELSE GetOr(variables, piece.var, "")
         IN <<run>> \o RenderTemplate(Tail(template_content), variables)

\* `sample_variables = variables or {}`: None and the empty mapping give a
\* new empty mapping, any other mapping is used itself.
SampleVariablesIsCallers(variables) ==
    variables.kind = "dict" /\ DOMAIN variables.items # {}

\* The mapping handed to the renderer (lines 115-120).
SampleVariables(variables) ==
    DictUpdate(IF SampleVariablesIsCallers(variables)
               THEN variables.items ELSE <<>>,
               Placeholders)

\* The caller's mapping object after lines 115-120: updated in place when it
\* is the object sample_variables names.
CallerVariablesAfter(variables) ==
    IF SampleVariablesIsCallers(variables)
    THEN DictOf(SampleVariables(variables))
    ELSE variables

\* The template text was loaded and is not empty (line 107 not taken).
TemplateFound(template, loadFault) ==
    LET template_content == LoadTemplate(template, loadFault)
    IN template_content # None /\ template_content[1] # <<>>

\* The caller's mapping object when validate_config has returned: lines
\* 115-120 run only past the return of lines 108-111, and have run when the
\* renderer or the validator raises afterwards.
CallerVariablesAtReturn(template, variables, loadFault) ==
    IF TemplateFound(template, loadFault)
    THEN CallerVariablesAfter(variables)
    ELSE variables

\* The dictionary validate_config returns (lines 105-138).  `answer` is what
\* validate_configuration handed back, or the exception it raised.
ValidateResult(template, variables, loadFault, renderFault, answer) ==
    LET template_content == LoadTemplate(template, loadFault)
    IN IF template_content = None \/ template_content[1] = <<>>
       THEN [success |-> FALSE, error |-> <<"Template not found", template>>]
       ELSE IF renderFault \/ IsException(answer)
       THEN [success |-> FALSE, error |-> <<"Validation failed", "exception">>]
       ELSE [success |-> GetOr(answer, "valid", FALSE),
             preview |-> RenderTemplate(template_content[1],
                                        SampleVariables(variables)),
             validation_errors |-> GetOr(answer, "errors", <<>>),
             warnings |-> GetOr(answer, "warnings", <<>>)]

\* A validation that keeps the preview it rendered as a Configuration row.
ValidateConfigStoringPreview(template, devices, variables, loadFault, renderFault, answer) ==
    LET r == ValidateResult(template, variables, loadFault, renderFault, answer)
    IN /\ validation' = [template |-> template, devices |-> devices,
                         variables |-> variables,
                         caller_after |-> CallerVariablesAtReturn(template, variables,
                                                              loadFault),
                         result |-> r]
       /\ configs' = IF "preview" \in DOMAIN r
                     THEN Append(configs, [device_id |-> 0, deployment_id |-> 0,
                                           configuration |-> r.preview])
                     ELSE configs
       /\ UNCHANGED <<inventory, nDeploys, deployedTo, history, deployResult,
                      batch, evaluation, compliance>>

\* ConfigManager.validate_config(template, devices, variables).  The call
\* is synchronous: it runs from start to end in one step.
ValidateConfig(template, devices, variables, loadFault, renderFault, answer) ==
    /\ validation' = [template |-> template, devices |-> devices,
                      variables |-> variables,
                      caller_after |-> CallerVariablesAtReturn(template, variables,
                                                              loadFault),
                      result |-> ValidateResult(template, variables, loadFault,
                                                renderFault, answer)]
    /\ UNCHANGED <<world, batch, evaluation, compliance>>

\* -------------------------------------------------------------- compliance
\* A text is a sequence of symbols; a symbol stands for a run of characters
\* that is matched as a whole.  NL is the newline character.
NL == "\n"
Symbols == {"ip ssh version 2", "transport input telnet", "banner login", NL}

\* The sequences of at most n symbols.
TextsUpTo(n) == UNION {[1..k -> Symbols] : k \in 0..n}

RECURSIVE Split(_)
\* text.split('\n'): the runs between newlines, empty ones included.
Split(text) ==
    IF \A i \in 1..Len(text) : text[i] # NL THEN <<text>>
    ELSE LET i == CHOOSE k \in 1..Len(text) :
                      text[k] = NL /\ \A j \in 1..(k - 1) : text[j] # NL
         IN <<SubSeq(text, 1, i - 1)>> \o Split(SubSeq(text, i + 1, Len(text)))

RECURSIVE Join(_)
\* '\n'.join(lines)
Join(lines) ==
    IF lines = <<>> THEN <<>>
    ELSE IF Len(lines) = 1 THEN lines[1]
    ELSE lines[1] \o <<NL>> \o Join(Tail(lines))

\* `pattern in text` for two strings.
In(pattern, text) ==
    \E i \in 0..(Len(text) - Len(pattern)) :
        SubSeq(text, i + 1, i + Len(pattern)) = pattern

\* bool(re.search(pattern, text)) for a pattern without metacharacters (the
\* patterns here are sequences of symbols, matched literally).
ReSearch(pattern, text) == In(pattern, text)

\* Policy evaluation that fails a policy of a kind it does not know.
CheckPolicyFailClosed(config_lines, policy) ==
    LET check_type == GetOr(policy, "check_type", "contains")
        pattern == GetOr(policy, "pattern", <<>>)
        config_text == Join(config_lines)
    IN CASE check_type = "contains" -> In(pattern, config_text)
         [] check_type = "not_contains" -> ~In(pattern, config_text)
         [] check_type = "regex" -> ReSearch(pattern, config_text)
         [] check_type = "line_exists" ->
                \E k \in 1..Len(config_lines) : In(pattern, config_lines[k])
         [] OTHER -> FALSE

\* ConfigManager._check_policy_compliance(config_lines, policy)
CheckPolicyCompliance(config_lines, policy) ==
    LET check_type == GetOr(policy, "check_type", "contains")
        pattern == GetOr(policy, "pattern", <<>>)
        config_text == Join(config_lines)
    IN CASE check_type = "contains" -> In(pattern, config_text)
         [] check_type = "not_contains" -> ~In(pattern, config_text)
         [] check_type = "regex" -> ReSearch(pattern, config_text)
         [] check_type = "line_exists" ->
                \E k \in 1..Len(config_lines) : In(pattern, config_lines[k])
         [] OTHER -> TRUE

\* The log records one _check_policy_compliance call emits: the function
\* has no logger call on any of its branches.
PolicyLogRecords(policy) == <<>>

\* One call of _check_policy_compliance on the lines of a fetched text.
EvaluatePolicy ==
    /\ "pending" \in DOMAIN evaluation
    /\ "policy" \in DOMAIN evaluation
    /\ evaluation' =
          [config_text |-> evaluation.config_text,
           policy |-> evaluation.policy,
           passed |-> CheckPolicyCompliance(Split(evaluation.config_text),
                                            evaluation.policy),
           log |-> PolicyLogRecords(evaluation.policy)]
    /\ UNCHANGED <<world, batch, validation, compliance>>

\* The policies _load_compliance_policies returns when there is no policy
\* file, in the order of the dictionary.
DefaultPolicies ==
    << [name |-> "ssh_enabled",
        policy |-> [description |-> "SSH should be enabled",
                    check_type |-> "contains",
                    pattern |-> <<"ip ssh version 2">>,
                    severity |-> "high"]],
       [name |-> "no_telnet",
        policy |-> [description |-> "Telnet should be disabled",
                    check_type |-> "not_contains",
                    pattern |-> <<"transport input telnet">>,
                    severity |-> "high"]],
       [name |-> "banner_configured",
        policy |-> [description |-> "Login banner should be configured",
                    check_type |-> "contains",
                    pattern |-> <<"banner login">>,
                    severity |-> "medium"]] >>

\* round(score, 1) of score = passed / total * 100 (0 with no policy), in
\* tenths, truncated instead of rounded.
ScoreTenthsTruncated(passed_policies, total_policies) ==
    IF total_policies > 0
    THEN (1000 * passed_policies) \div total_policies
    ELSE 0

\* round(score, 1) of score = passed / total * 100 (0 with no policy), in
\* tenths: 667 is 66.7.  (No score of fewer than 16 policies lies halfway
\* between two tenths.)
ScoreTenths(passed_policies, total_policies) ==
    IF total_policies > 0
    THEN (2000 * passed_policies + total_policies) \div (2 * total_policies)
    ELSE 0

\* The entry appended to compliance_issues for a failed policy.
Issue(entry) ==
    [policy |-> entry.name,
     description |-> GetOr(entry.policy, "description", ""),
     severity |-> GetOr(entry.policy, "severity", "medium")]

\* A policy that is a mapping; policy.get raises on any other value a
\* policy file may hold under a policy name.
IsMapping(policy) == "not_a_mapping" \notin DOMAIN policy

\* A compliance worker whose exception escapes to the batch.
ComplianceFaultEscaping(device, e) == [exception |-> e]

\* The dictionary of the handler at lines 285-292.
ComplianceFault(device, e) ==
    [device |-> device.name, compliant |-> FALSE, error |-> e]

\* The dictionary _check_device_compliance returns for a device, given
\* what the awaited _get_device_configuration handed back (or the exception
\* raised on the way to it) and the policy mapping.
CheckDeviceCompliance(device, config_result, policies) ==
    IF IsException(config_result)
    THEN ComplianceFault(device, config_result.exception)
    ELSE IF ~GetOr(config_result, "success", FALSE)
    THEN [device |-> device.name, compliant |-> FALSE,
          error |-> GetOr(config_result, "error", None)]
    ELSE IF \E i \in 1..Len(policies) : ~IsMapping(policies[i].policy)
    THEN ComplianceFault(device, "AttributeError")
    ELSE LET config_lines == Split(config_result.configuration)
             failed == SelectSeq(policies,
                           LAMBDA e : ~CheckPolicyCompliance(config_lines,
                                                             e.policy))
             compliance_issues == [i \in 1..Len(failed) |-> Issue(failed[i])]
             total_policies == Len(policies)
             passed_policies == total_policies - Len(compliance_issues)
         IN [device |-> device.name,
             compliant |-> (Len(compliance_issues) = 0),
             score |-> ScoreTenths(passed_policies, total_policies),
             issues_count |-> Len(compliance_issues),
             issues |-> compliance_issues]

\* One call of _check_device_compliance.
CheckCompliance ==
    /\ "pending" \in DOMAIN compliance
    /\ "policies" \in DOMAIN compliance
    /\ compliance' =
          [device |-> compliance.device,
           config_result |-> compliance.config_result,
           policies |-> compliance.policies,
           result |-> CheckDeviceCompliance(compliance.device,
                                            compliance.config_result,
                                            compliance.policies)]
    /\ UNCHANGED <<world, batch, validation, evaluation>>

\* The worker of a compliance sweep for target i: one call of
\* _check_device_compliance with the mapping loaded once for the sweep.
CheckComplianceOf(i) ==
    /\ "targets" \in DOMAIN compliance
    /\ i \in 1..Len(compliance.targets)
    /\ compliance.results[i] = NoResult
    /\ compliance' =
          [compliance EXCEPT !.results[i] =
              CheckDeviceCompliance(compliance.targets[i],
                                    compliance.config_results[i],
                                    compliance.policies)]
    /\ UNCHANGED <<world, batch, validation, evaluation>>

\* ------------------------------------------------------------------ inputs
\* The explicit device lists callers pass to rollback_config: empty, known,
\* unknown, repeated, mixed, and the literal "all".
NameLists ==
    { <<>>, <<Name(1)>>, <<UnknownName>>, <<Name(1), Name(1)>>,
      <<Name(2), Name(1)>>, <<Name(1), UnknownName>>, <<"all">> }

Selectors == {NoneDevices} \cup {ListOf(l) : l \in NameLists}

\* The device lists of the deployments that fill the Configuration table.
\* The config ids callers ask for: the oldest row, the newest, and an id no
\* row has.
ConfigIds == {1, Len(configs), Len(configs) + 1}

DeployLists == { <<"all">>, <<Name(1), Name(1)>> }

\* The variable mappings callers pass to validate_config.
VariableMappings ==
    { NoneVariables, DictOf(<<>>),
      DictOf([ntp_server |-> "10.0.0.5"]),
      DictOf([hostname |-> "core-1"]),
      DictOf([hostname |-> "core-1", ntp_server |-> "10.0.0.5"]) }

\* The device lists callers pass to validate_config.
ValidateDeviceLists == { <<>>, <<Name(1)>>, <<"all">> }

\* What validate_configuration (netconfig.utils) hands back, or raises.
ValidationAnswers ==
    { [valid |-> TRUE, errors |-> <<>>, warnings |-> <<>>],
      [valid |-> TRUE, errors |-> <<>>, warnings |-> <<"w">>],
      [valid |-> FALSE, errors |-> <<"e">>, warnings |-> <<>>],
      [errors |-> <<"e">>],
      [exception |-> "validator fault"] }

\* The check kinds of the policies evaluated: the four the code knows and
\* one it does not.
CheckTypes == {"contains", "not_contains", "regex", "line_exists", "exact"}

\* The policies handed to _check_policy_compliance: every kind with every
\* pattern, and policies without a kind or without a pattern.
Policies ==
    {[check_type |-> k, pattern |-> p] :
        k \in CheckTypes, p \in TextsUpTo(MaxPattern)}
    \cup {[pattern |-> p] : p \in TextsUpTo(MaxPattern)}
    \cup {[check_type |-> k] : k \in CheckTypes}

\* The policies a policy file may add to or take from the default ones.
PolicyPool ==
    DefaultPolicies \o
    << [name |-> "no_telnet_line",
        policy |-> [check_type |-> "line_exists",
                    pattern |-> <<"transport input telnet">>]],
       [name |-> "aaa",
        policy |-> [description |-> "AAA new-model",
                    check_type |-> "exact",
                    pattern |-> <<"banner login">>,
                    severity |-> "low"]] >>

\* The mappings _load_compliance_policies may return: the default one, what
\* a policy file holds (any choice from the pool, in order), or the empty
\* mapping.
PolicyMappings ==
    {[i \in 1..Cardinality(S) |-> PolicyPool[SeqOfSet(S)[i]]] :
        S \in SUBSET (1..Len(PolicyPool))}

\* What _get_device_configuration hands back: the running configuration,
\* or the failure of the session.
ConfigResults ==
    {[success |-> TRUE, configuration |-> t] : t \in TextsUpTo(MaxText)}
    \cup {[success |-> FALSE, error |-> "timeout"]}

\* What the fetch of one device of a sweep comes to: a configuration, the
\* failure of the session, or an exception raised before the fetch answers
\* (a device record without credentials).
SweepFetches ==
    { [success |-> TRUE, configuration |-> <<>>],
      [success |-> TRUE,
       configuration |-> <<"ip ssh version 2", NL, "banner login">>],
      [success |-> FALSE, error |-> "timeout"],
      [exception |-> "KeyError"] }

\* The mappings of a sweep: the default policies, the empty mapping, and
\* policy files with an entry that is not a mapping.
SweepMappings ==
    { DefaultPolicies, <<>>,
      DefaultPolicies \o <<[name |-> "ntp", policy |-> [not_a_mapping |-> TRUE]]>>,
      <<[name |-> "ntp", policy |-> [not_a_mapping |-> TRUE]]>> }

BackupOutcomes == {"ok", "refused", "raise"}
PushOutcomes == {"ok", "rejected", "raise"}

\* ---------------------------------------------------------- specifications
IdleBatch ==
    /\ pc = "idle"
    /\ req = [config_id |-> 0, devices |-> NoneDevices]
    /\ resolvedBy = "none"
    /\ warnings = <<>>
    /\ target_devices = <<>>
    /\ workers = <<>>
    /\ semaphore = MaxConcurrent
    /\ result = NoResult
    /\ backupCalls = ZeroCalls
    /\ pushCalls = ZeroCalls

\* No validation and no compliance check has been made.
IdlePure ==
    /\ validation = NoResult
    /\ evaluation = NoResult
    /\ compliance = NoResult

\* Every device in the inventory, nothing deployed yet.
InitWorld ==
    /\ inventory = 1..NumDevices
    /\ configs = <<>>
    /\ nDeploys = 0
    /\ deployedTo = [k \in 1..MaxDeploys |-> {}]
    /\ history = <<>>
    /\ deployResult = NoResult

Init ==
    /\ InitWorld
    /\ IdleBatch
    /\ IdlePure

WorkerStep ==
    \/ \E i \in 1..Len(workers) : Acquire(i)
    \/ \E i \in 1..Len(workers), o \in BackupOutcomes : BackupReturns(i, o)
    \/ \E i \in 1..Len(workers), o \in PushOutcomes : PushReturns(i, o)
    \/ GatherReturns
    \/ Finish

Next ==
    \/ \E names \in DeployLists, lost \in 0..NumDevices :
            Deploy(names, lost, TRUE)
    \/ \E d \in 1..NumDevices : DeleteDevice(d)
    \/ \E config_id \in ConfigIds, devices \in Selectors,
          lookupFault \in BOOLEAN, historyFault \in BOOLEAN :
            RollbackConfig(config_id, devices, lookupFault, historyFault)
    \/ WorkerStep

Spec == Init /\ [][Next]_vars

\* A batch on a settled system: every device is in the inventory and one
\* deployment to all of them has been recorded (a state Spec reaches by
\* Deploy(<<"all">>, 0)); only rollbacks run.
InitBatch ==
    /\ inventory = 1..NumDevices
    /\ configs = StoreEach(<<>>, get_all_devices, 1, 0, 1)
    /\ nDeploys = 1
    /\ deployedTo = [k \in 1..MaxDeploys |-> IF k = 1 THEN 1..NumDevices ELSE {}]
    /\ history = StoreDeploymentHistory(
                     <<>>, 1, <<"all">>, DeployOutcomes(get_all_devices, 0),
                     SuccessRate(DeployOutcomes(get_all_devices, 0)), TRUE)
    /\ deployResult = DeployResult(DeployOutcomes(get_all_devices, 0),
                                   StoreHelperOutcome(TRUE))
    /\ IdleBatch
    /\ IdlePure

NextBatch ==
    \/ \E config_id \in ConfigIds, devices \in Selectors,
          lookupFault \in BOOLEAN, historyFault \in BOOLEAN :
            RollbackConfig(config_id, devices, lookupFault, historyFault)
    \/ WorkerStep

SpecBatch == InitBatch /\ [][NextBatch]_vars

\* A batch over more devices than the semaphore admits: PoolDevices devices
\* in the inventory, a rollback of all of them, backups that succeed and
\* pushes that succeed, are rejected or raise.
InitPool ==
    /\ inventory = 1..PoolDevices
    /\ configs = StoreEach(<<>>, get_all_devices, 1, 0, 1)
    /\ nDeploys = 1
    /\ deployedTo = [k \in 1..MaxDeploys |-> IF k = 1 THEN 1..PoolDevices ELSE {}]
    /\ history = StoreDeploymentHistory(
                     <<>>, 1, <<"all">>, DeployOutcomes(get_all_devices, 0),
                     SuccessRate(DeployOutcomes(get_all_devices, 0)), TRUE)
    /\ deployResult = DeployResult(DeployOutcomes(get_all_devices, 0),
                                   StoreHelperOutcome(TRUE))
    /\ IdleBatch
    /\ IdlePure

NextPool ==
    \/ RollbackConfig(1, ListOf(<<"all">>), FALSE, FALSE)
    \/ \E i \in 1..Len(workers) : Acquire(i)
    \/ \E i \in 1..Len(workers) : BackupReturns(i, "ok")
    \/ \E i \in 1..Len(workers), o \in PushOutcomes : PushReturns(i, o)
    \/ GatherReturns
    \/ Finish

SpecPool == InitPool /\ [][NextPool]_vars

\* Rollbacks without a device list on a system whose deployment history and
\* inventory change between them; backups and pushes succeed.
NextHistory ==
    \/ \E names \in DeployLists, lost \in 0..NumDevices :
            Deploy(names, lost, TRUE)
    \/ \E d \in 1..NumDevices : DeleteDevice(d)
    \/ \E config_id \in ConfigIds, historyFault \in BOOLEAN :
            RollbackConfig(config_id, NoneDevices, FALSE, historyFault)
    \/ \E i \in 1..Len(workers) : Acquire(i)
    \/ \E i \in 1..Len(workers) : BackupReturns(i, "ok")
    \/ \E i \in 1..Len(workers) : PushReturns(i, "ok")
    \/ GatherReturns
    \/ Finish

SpecHistory == Init /\ [][NextHistory]_vars

\* A batch over LiveDevices devices, one deployment to all of them on
\* record.
InitLive ==
    /\ inventory = 1..LiveDevices
    /\ configs = StoreEach(<<>>, get_all_devices, 1, 0, 1)
    /\ nDeploys = 1
    /\ deployedTo = [k \in 1..MaxDeploys |-> IF k = 1 THEN 1..LiveDevices ELSE {}]
    /\ history = StoreDeploymentHistory(
                     <<>>, 1, <<"all">>, DeployOutcomes(get_all_devices, 0),
                     SuccessRate(DeployOutcomes(get_all_devices, 0)), TRUE)
    /\ deployResult = DeployResult(DeployOutcomes(get_all_devices, 0),
                                   StoreHelperOutcome(TRUE))
    /\ IdleBatch
    /\ IdlePure

\* The steps of a running batch: the event loop resumes a task that can
\* go on, and a device call that was made returns or faults.
BatchStep ==
    \/ \E i \in 1..Len(workers) : Acquire(i)
    \/ \E i \in 1..Len(workers) : BackupReturns(i, "ok")
    \/ \E i \in 1..Len(workers), o \in {"ok", "raise"} : PushReturns(i, o)
    \/ GatherReturns

NextLive ==
    \/ RollbackConfig(1, ListOf(<<"all">>), FALSE, FALSE)
    \/ BatchStep
    \/ Finish

\* The batch with the event loop and the device calls making progress: no
\* step of the batch stays possible forever without one being taken.
SpecLive == InitLive /\ [][NextLive]_vars /\ WF_vars(BatchStep)

\* Rollbacks with a device list on an inventory that shrinks between them;
\* backups and pushes succeed.
NextResolve ==
    \/ \E d \in 1..NumDevices : DeleteDevice(d)
    \/ \E names \in NameLists : RollbackConfig(1, ListOf(names), FALSE, FALSE)
    \/ \E i \in 1..Len(workers) : Acquire(i)
    \/ \E i \in 1..Len(workers) : BackupReturns(i, "ok")
    \/ \E i \in 1..Len(workers) : PushReturns(i, "ok")
    \/ GatherReturns
    \/ Finish

SpecResolve == InitBatch /\ [][NextResolve]_vars

\* Deployments whose snapshot and history writes may fail, on an inventory
\* that changes between them.
NextStore ==
    \/ \E names \in DeployLists, lost \in 0..NumDevices,
          historyWritten \in BOOLEAN : Deploy(names, lost, historyWritten)
    \/ \E d \in 1..NumDevices : DeleteDevice(d)

SpecStore == Init /\ [][NextStore]_vars

\* Dry runs on a settled system: only validate_config is called.
NextValidate ==
    \E template \in TemplateNames, devices \in ValidateDeviceLists,
       variables \in VariableMappings, loadFault \in BOOLEAN,
       renderFault \in BOOLEAN, answer \in ValidationAnswers :
        ValidateConfig(template, devices, variables, loadFault, renderFault,
                       answer)

SpecValidate == InitBatch /\ [][NextValidate]_vars

\* Policy evaluation as a function of its arguments: every text with every
\* policy.
InitPolicy ==
    /\ InitWorld
    /\ IdleBatch
    /\ validation = NoResult
    /\ compliance = NoResult
    /\ evaluation \in {[config_text |-> t, policy |-> p, pending |-> TRUE] :
                          t \in TextsUpTo(MaxText), p \in Policies}

SpecPolicy == InitPolicy /\ [][EvaluatePolicy]_vars

\* The compliance check of one device as a function of the configuration
\* fetched and the policy mapping loaded.
InitCompliance ==
    /\ InitWorld
    /\ IdleBatch
    /\ validation = NoResult
    /\ evaluation = NoResult
    /\ compliance \in {[device |-> Device(1), config_result |-> c,
                          policies |-> m, pending |-> TRUE] :
                          c \in ConfigResults, m \in PolicyMappings}

SpecCompliance == InitCompliance /\ [][CheckCompliance]_vars

\* A compliance sweep over SweepDevices devices: one worker per device, in
\* any order, every combination of fetch outcomes.
InitSweep ==
    /\ InitWorld
    /\ IdleBatch
    /\ validation = NoResult
    /\ evaluation = NoResult
    /\ compliance \in
          {[targets |-> [i \in 1..SweepDevices |-> Device(i)],
            config_results |-> c,
            policies |-> m,
            results |-> [i \in 1..SweepDevices |-> NoResult]] :
              c \in [1..SweepDevices -> SweepFetches], m \in SweepMappings}

NextSweep == \E i \in 1..SweepDevices : CheckComplianceOf(i)

SpecSweep == InitSweep /\ [][NextSweep]_vars

\* =================================================================== claims
\* A batch that started workers has returned its aggregate.
BatchDone == pc = "done" /\ workers # <<>>

InFlight == {i \in 1..Len(workers) : workers[i].phase \in {"backup", "push"}}

TargetIds == {target_devices[i].id : i \in 1..Len(target_devices)}

TotalCalls(calls) == CountCalls(calls, Len(DeviceNames))

\* The device ids of the snapshot rows recorded under a deployment id.
RowDevices(deployment_id) ==
    {configs[k].device_id :
        k \in {j \in 1..Len(configs) : configs[j].deployment_id = deployment_id}}

\* C1: a batch that started workers returns a 'results' list with exactly
\* one outcome per resolved target, outcome i carrying the name of target i,
\* whatever the completion order and whichever workers faulted.
C1_ResultsAlignedWithTargets ==
    BatchDone =>
        /\ "results" \in DOMAIN result
        /\ Len(result.results) = Len(target_devices)
        /\ \A i \in 1..Len(target_devices) :
              result.results[i].device = target_devices[i].name

\* Three targets, the middle one's push raised, the first one's succeeded.
C1_Witness ==
    /\ BatchDone
    /\ Len(target_devices) = 3
    /\ "error" \in DOMAIN result.results[2]
    /\ result.results[1].success
    /\ result.results[2].device = Name(2)

\* C2: within one batch, at no moment are more than 5 workers inside their
\* device-work section (backup or push); the others wait for a permit.
C2_AtMostFiveInFlight == Cardinality(InFlight) <= MaxConcurrent

\* Five workers at work, one already finished and one still waiting.
C2_Witness ==
    /\ Cardinality(InFlight) = MaxConcurrent
    /\ \E i \in 1..Len(workers) : workers[i].phase = "queued"
    /\ \E i \in 1..Len(workers) : workers[i].phase = "returned"

C4_SuccessIffSomeDeviceSucceeded ==
    BatchDone =>
        (result.success <=>
            \E i \in 1..Len(result.results) : result.results[i].success)

\* One device succeeded and two failed: the batch still reports success.
C4_Witness ==
    /\ BatchDone
    /\ result.success
    /\ Cardinality({i \in 1..Len(result.results) :
                        ~result.results[i].success}) = 2

\* C5: a rollback of a stored configuration whose selector resolves to no
\* device (only unknown names, an empty list, or a deployment with no
\* recorded device) ends with success = false, the resolution error, and
\* no backup and no push.
C5_EmptySelectionFails ==
    LET empty ==
            IF req.devices.kind = "list"
            THEN GetTargetDevices(req.devices.names) = <<>>
            ELSE RowDevices(Lookup(req.config_id)[1].deployment_id)
                    \cap inventory = {}
    IN (pc = "done" /\ Lookup(req.config_id) # None
                    /\ result # FailedResult /\ empty)
          => /\ result = NoTargetsResult
             /\ TotalCalls(backupCalls) = 0
             /\ TotalCalls(pushCalls) = 0

\* C6: a rollback whose config_id has no stored row aborts at once: it
\* fails (with the not-found error once the lookup has answered), resolves
\* no target, starts no worker and makes no backup and no push.
C6_NotFoundAborts ==
    (pc = "done" /\ req.config_id \notin 1..Len(configs)) =>
        /\ result.success = FALSE
        /\ result # FailedResult => result = NotFoundResult
        /\ resolvedBy = "none"
        /\ target_devices = <<>>
        /\ workers = <<>>
        /\ TotalCalls(backupCalls) = 0
        /\ TotalCalls(pushCalls) = 0

\* An unknown id, although rows exist and the selector names every device.
C6_Witness ==
    /\ pc = "done"
    /\ result = NotFoundResult
    /\ configs # <<>>
    /\ req.config_id = Len(configs) + 1
    /\ req.devices = ListOf(<<"all">>)

\* C7: a worker pushes to its device only after it has attempted the backup
\* of that device: the first device call of every worker is the backup, and
\* no device has had more pushes than backup attempts.
C7_BackupAttemptBeforePush ==
    /\ \A i \in 1..Len(workers) :
          workers[i].calls \in {<<>>, <<"backup">>, <<"backup", "push">>}
    /\ \A i \in 1..Len(workers) :
          workers[i].phase \in {"push", "returned"} =>
              workers[i].calls = <<"backup", "push">>
    /\ \A d \in AllIds : pushCalls[d] <= backupCalls[d]

\* A push is under way on a device whose backup was attempted and refused.
C7_Witness ==
    \E i \in 1..Len(workers) :
        /\ workers[i].phase = "push"
        /\ workers[i].calls = <<"backup", "push">>
        /\ workers[i].backup_result.success = FALSE
        /\ pushCalls[target_devices[i].id] = 1

C10_NoDeviceTwice ==
    \A i, j \in 1..Len(target_devices) :
        i # j => target_devices[i].id # target_devices[j].id

\* C11: the step in which a batch that started workers returns its aggregate
\* (all workers have completed) writes exactly one deployment history row
\* for the batch, even when every device failed.
C11_BatchWritesOneRecord ==
    [][(pc = "running" /\ pc' = "done") => Len(history') = Len(history) + 1]_vars

\* C12: a validate_config call contacts no device and writes nothing to the
\* store, whatever template, device list and variables it is given and
\* whether it returns a preview or an error.
C12_DryRunLeavesNoTrace ==
    [][validation' # validation =>
          UNCHANGED <<inventory, configs, history, nDeploys, backupCalls,
                      pushCalls, workers>>]_vars

\* A dry run returned a preview and the Configuration table holds the rows
\* of the one recorded deployment only.
C12_Witness ==
    /\ validation # NoResult
    /\ "preview" \in DOMAIN validation.result
    /\ validation.result.success
    /\ Len(configs) = NumDevices
    /\ TotalCalls(pushCalls) = 0

\* C13: a value the caller supplies for a name wins over the placeholder of
\* that name, the placeholders only filling the names the caller left out:
\* the preview is the template rendered with the caller's hostname,
\* management_ip and device_type where the caller gave them.
C13_CallerValueWins ==
    (/\ validation # NoResult
     /\ "preview" \in DOMAIN validation.result
     /\ validation.variables.kind = "dict") =>
        validation.result.preview =
            RenderTemplate(TemplateDir[validation.template],
                           DictUpdate(Placeholders, validation.variables.items))

\* The pattern occurs in the text: the text is some u, the pattern, some v.
Occurs(pattern, text) ==
    \E i \in 0..Len(text), j \in 0..Len(text) :
        i <= j /\ SubSeq(text, i + 1, j) = pattern

\* A line of the text between positions i and j: starts after a newline or
\* at the start, ends before a newline or at the end, holds no newline.
IsLine(text, i, j) ==
    /\ i <= j
    /\ i = 0 \/ text[i] = NL
    /\ j = Len(text) \/ text[j + 1] = NL
    /\ \A k \in (i + 1)..j : text[k] # NL

RecognisedTypes == {"contains", "not_contains", "regex", "line_exists"}

\* C14: policy evaluation answers, for kind contains, whether the pattern is
\* a substring of the full text; for not_contains, whether it is not; for
\* line_exists, whether at least one newline-separated line contains the
\* pattern; and true for every kind it does not recognise.
C14_PolicyEvaluation ==
    ("passed" \in DOMAIN evaluation /\ "check_type" \in DOMAIN evaluation.policy) =>
        LET text == evaluation.config_text
            kind == evaluation.policy.check_type
            pattern == GetOr(evaluation.policy, "pattern", <<>>)
            passed == evaluation.passed
        IN /\ kind = "contains" => (passed <=> Occurs(pattern, text))
           /\ kind = "not_contains" => (passed <=> ~Occurs(pattern, text))
           /\ kind = "line_exists" =>
                 (passed <=>
                    \E i \in 0..Len(text), j \in 0..Len(text) :
                        /\ IsLine(text, i, j)
                        /\ Occurs(pattern, SubSeq(text, i + 1, j)))
           /\ kind \notin RecognisedTypes => passed

\* A pattern that spans a line break: it is in the text but in no line, so
\* the line check fails where the text check would pass.
C14_Witness ==
    /\ "passed" \in DOMAIN evaluation
    /\ evaluation.policy = [check_type |-> "line_exists",
                            pattern |-> <<"banner login", NL>>]
    /\ evaluation.config_text = <<"banner login", NL, "ip ssh version 2">>
    /\ ~evaluation.passed

\* C15: every evaluation that takes the fail-open branch (a check kind the
\* code does not recognise) emits at least one log record.
C15_FailOpenIsLogged ==
    (/\ "passed" \in DOMAIN evaluation
     /\ "check_type" \in DOMAIN evaluation.policy
     /\ evaluation.policy.check_type \notin RecognisedTypes) =>
        evaluation.log # <<>>

\* C16: for a device whose configuration was fetched and a policy mapping
\* that is not empty, issues_count is the number of policies that failed,
\* compliant says there is none, and score is the tenth nearest to
\* passed / total x 100; the default policies on a text with 'ip ssh version
\* 2' and neither 'transport input telnet' nor 'banner login' give 66.7,
\* not compliant, one issue.
C16_ComplianceScore ==
    (/\ "result" \in DOMAIN compliance
     /\ compliance.config_result.success
     /\ compliance.policies # <<>>) =>
        LET text == compliance.config_result.configuration
            policies == compliance.policies
            r == compliance.result
            total == Len(policies)
            failed == Cardinality({i \in 1..total :
                          ~CheckPolicyCompliance(Split(text), policies[i].policy)})
            passed == total - failed
            distance == IF r.score * total >= 1000 * passed
                        THEN r.score * total - 1000 * passed
                        ELSE 1000 * passed - r.score * total
        IN /\ r.issues_count = failed
           /\ Len(r.issues) = failed
           /\ r.compliant <=> (r.issues_count = 0)
           /\ 2 * distance <= total
           /\ (/\ policies = DefaultPolicies
               /\ Occurs(<<"ip ssh version 2">>, text)
               /\ ~Occurs(<<"transport input telnet">>, text)
               /\ ~Occurs(<<"banner login">>, text))
                 => /\ r.score = 667
                    /\ r.compliant = FALSE
                    /\ r.issues_count = 1

\* The default policies on a text with the SSH line only.
C16_Witness ==
    /\ "result" \in DOMAIN compliance
    /\ compliance.policies = DefaultPolicies
    /\ compliance.config_result =
          [success |-> TRUE,
           configuration |-> <<"ip ssh version 2", NL>>]
    /\ compliance.result.score = 667
    /\ compliance.result.issues =
          <<[policy |-> "banner_configured",
             description |-> "Login banner should be configured",
             severity |-> "medium"]>>

\* The snapshot rows and the history rows recorded under a deployment id.
RowsOf(deployment_id) ==
    SelectSeq(configs, LAMBDA c : c.deployment_id = deployment_id)

HistoryOf(deployment_id) ==
    SelectSeq(history, LAMBDA h : h.deployment_id = deployment_id)

\* C17: a snapshot or history write that fails is swallowed by the store
\* helper, so what the operation reports does not depend on it: the last
\* deployment, every push of which succeeded, reports one successful
\* outcome per target and overall success whether or not its rows were
\* written.
C17_StoreFaultsAreSwallowed ==
    deployResult # NoResult =>
        /\ "results" \in DOMAIN deployResult
        /\ deployResult.success
        /\ deployResult.summary.failed = 0
        /\ deployResult.summary.successful = Len(deployResult.results)
        /\ \A i \in 1..Len(deployResult.results) :
              /\ deployResult.results[i].success
              /\ "error" \notin DOMAIN deployResult.results[i]
        /\ {deployResult.results[i].device :
                i \in 1..Len(deployResult.results)}
             = {Name(d) : d \in deployedTo[nDeploys]}

\* A deployment to every device lost one snapshot row and its history row,
\* and reported success for every device.
C17_Witness ==
    /\ deployResult # NoResult
    /\ nDeploys = 1
    /\ Len(deployResult.results) = NumDevices
    /\ Len(RowsOf(1)) = NumDevices - 1
    /\ HistoryOf(1) = <<>>
    /\ deployResult.summary.successful = NumDevices

\* The names of a list the inventory knows / does not know, in list order.
KnownNames(names) ==
    SelectSeq(names, LAMBDA n : \E d \in inventory : Name(d) = n)

UnknownNames(names) ==
    SelectSeq(names, LAMBDA n : \A d \in inventory : Name(d) # n)

\* C18: resolving an explicit list of names gives exactly the inventory
\* devices the list names, in list order; every unknown name is dropped
\* with a warning and the resolution goes on; the selector 'all' gives
\* every inventory device.
C18_ExplicitListResolution ==
    (pc # "idle" /\ resolvedBy = "selector") =>
        LET names == req.devices.names
        IN /\ \A i \in 1..Len(target_devices) :
                 /\ target_devices[i].id \in inventory
                 /\ target_devices[i] = Device(target_devices[i].id)
           /\ IF names = <<"all">>
              THEN /\ TargetIds = inventory
                   /\ Len(target_devices) = Cardinality(inventory)
                   /\ warnings = <<>>
              ELSE /\ [i \in 1..Len(target_devices) |-> target_devices[i].name]
                        = KnownNames(names)
                   /\ warnings = UnknownNames(names)

\* A list with a known and an unknown name: the batch runs on the known
\* device and the unknown name was warned about.
C18_Witness ==
    /\ pc = "running"
    /\ req.devices = ListOf(<<Name(1), UnknownName>>)
    /\ target_devices = <<Device(1)>>
    /\ warnings = <<UnknownName>>
    /\ inventory # 1..NumDevices

\* C19: a returned rollback result has no per-device 'results' list (only
\* success = false and an error) exactly when no worker was started; once a
\* worker was started the result carries 'results' and 'summary' and no
\* top-level error, even when every device failed.
C19_StartedOrCouldNotStart ==
    pc = "done" =>
        /\ ("results" \notin DOMAIN result) <=> (workers = <<>>)
        /\ workers = <<>> =>
              /\ DOMAIN result = {"success", "error"}
              /\ result.success = FALSE
              /\ TotalCalls(backupCalls) + TotalCalls(pushCalls) = 0
        /\ workers # <<>> =>
              /\ DOMAIN result = {"success", "results", "summary"}
              /\ Len(result.results) = Len(workers)
              /\ result.summary.total_devices = Len(workers)

\* Every device of a three-device batch failed: the result still carries
\* the per-device list and the summary.
C19_Witness ==
    /\ BatchDone
    /\ Len(workers) = 3
    /\ result.success = FALSE
    /\ result.summary.failed = 3
    /\ "error" \in DOMAIN result.results[1]
    /\ "message" \in DOMAIN result.results[2]

\* C20: a batch that has started ends: every target's worker runs its
\* backup and its push and returns, every permit is back, and the batch
\* returns an aggregate with one outcome per target -- with more targets
\* than permits and whichever pushes fault.
C20_BatchRunsToCompletion ==
    (pc = "running") ~>
        (/\ pc = "done"
         /\ \A i \in 1..Len(workers) :
               /\ workers[i].phase = "returned"
               /\ workers[i].calls = <<"backup", "push">>
         /\ semaphore = MaxConcurrent
         /\ "results" \in DOMAIN result
         /\ Len(result.results) = Len(target_devices))

\* More targets than permits, the first five pushes raised, and the batch
\* returned with the later workers' outcomes too.
C20_Witness ==
    /\ BatchDone
    /\ Len(workers) > MaxConcurrent
    /\ \A i \in 1..MaxConcurrent : "error" \in DOMAIN workers[i].ret
    /\ workers[Len(workers)].ret.success
    /\ semaphore = MaxConcurrent

\* The check of target i of the sweep met a fault: its fetch failed or
\* raised, or the mapping holds a policy that cannot be evaluated.
SweepFaulted(i) ==
    \/ IsException(compliance.config_results[i])
    \/ ~compliance.config_results[i].success
    \/ \E k \in 1..Len(compliance.policies) :
          "not_a_mapping" \in DOMAIN compliance.policies[k].policy

\* C21: a per-device compliance check never raises to the sweep: every
\* finished worker has returned an outcome for its own device; when its
\* fetch failed or the evaluation faulted the outcome has compliant = false,
\* the error and no score, and otherwise it has its score, whatever
\* happened to the other devices.
C21_ComplianceFaultIsolated ==
    "targets" \in DOMAIN compliance =>
        \A i \in 1..Len(compliance.targets) :
            compliance.results[i] # NoResult =>
                LET r == compliance.results[i]
                IN /\ "device" \in DOMAIN r
                   /\ r.device = compliance.targets[i].name
                   /\ "exception" \notin DOMAIN r
                   /\ IF SweepFaulted(i)
                      THEN /\ r.compliant = FALSE
                           /\ "error" \in DOMAIN r
                           /\ "score" \notin DOMAIN r
                      ELSE /\ "score" \in DOMAIN r
                           /\ "error" \notin DOMAIN r

\* The first device's check raised and the second device was scored.
C21_Witness ==
    /\ "targets" \in DOMAIN compliance
    /\ IsException(compliance.config_results[1])
    /\ compliance.results[1] # NoResult
    /\ compliance.results[1].error = "KeyError"
    /\ compliance.results[2] # NoResult
    /\ "score" \in DOMAIN compliance.results[2]
    /\ compliance.results[2].compliant

\* C22: the configuration text a rollback pushes to a device is the text of
\* a snapshot row recorded for that same device.
C22_PushedTextIsTheDevicesOwn ==
    \A i \in 1..Len(workers) :
        workers[i].pushed # None =>
            \E k \in 1..Len(configs) :
                /\ configs[k].device_id = target_devices[i].id
                /\ configs[k].configuration = workers[i].pushed

\* C23: a rollback called with an explicit device list, the empty list
\* included, takes no target from the deployment history, and every device
\* it backs up or pushes to is one the list names (any device for the
\* literal 'all').
C23_OnlyListedDevicesTouched ==
    (pc # "idle" /\ req.devices.kind = "list") =>
        /\ resolvedBy # "deployment"
        /\ \A d \in AllIds :
              (backupCalls[d] + pushCalls[d] > 0) =>
                  \/ req.devices.names = <<"all">>
                  \/ \E k \in 1..Len(req.devices.names) :
                        req.devices.names[k] = Name(d)

\* C24: a per-device compliance result that is compliant has score 100, and
\* a result whose score is below 100 is not compliant, for every policy
\* mapping that can be loaded, the empty one included (scores in tenths).
C24_CompliantIffFullScore ==
    ("result" \in DOMAIN compliance /\ "score" \in DOMAIN compliance.result) =>
        /\ compliance.result.compliant => compliance.result.score = 1000
        /\ compliance.result.score < 1000 => ~compliance.result.compliant

\* C25: validate_config leaves the caller's variable mapping unchanged:
\* when the call has returned, the mapping object the caller passed holds
\* exactly the keys and values it held before the call.
C25_CallerMappingUnchanged ==
    validation # NoResult => validation.caller_after = validation.variables

====
